---- MODULE Spec2Model ----
\* Model of trento::Event (src/.history/event_20231123120741.cxx): the grid
\* engine that deposits two nuclei on thickness grids, combines them with a
\* generalized mean and extracts the harmonic observables.
\*
\* Numbers.  Lengths are integers in a length unit u; the grid step is an even
\* number of u so that half steps and cell centres are integers.  Thickness
\* values are integers in a thickness quantum q = 0.5e-12, so the tolerance
\* 1e-12 of the source is TINY = 2 and the value 1 is a positive value below
\* tolerance.  A double that may fail to be finite is a record with a class
\* ("finite", "nan" or "inf") beside its value.
EXTENDS Integers, Sequences, FiniteSets, TLC

\* norm_ .. eccentricity_ are the members of Event.  var_map is the
\* configuration the constructor read, nucleon_common the deposition rule the
\* caller owns, nucleusA and nucleusB the arguments of the most recent compute
\* call (NoNucleus before the first call), nevents the number of compute calls
\* made on this Event so far (at most MaxEvents).
VARIABLES norm_, dxy_, nsteps_, xymax_, compute_reduced_thickness_, npart_,
          TA_, TB_, TR_, multiplicity_, ixcm_, iycm_, eccentricity_,
          var_map, nucleon_common, nucleusA, nucleusB, nevents

vars == <<norm_, dxy_, nsteps_, xymax_, compute_reduced_thickness_, npart_,
          TA_, TB_, TR_, multiplicity_, ixcm_, iycm_, eccentricity_,
          var_map, nucleon_common, nucleusA, nucleusB, nevents>>

----------------------------------------------------------------------------
\* Bounds of the model.

\* grid-step is 2 or 2*MaxHalfStep length units
MaxHalfStep == 2
\* grid-max, in length units
MaxGridMax == 3
\* the exponent p of the generalized mean is -MaxP, 0 or MaxP
MaxP == 1
\* normalization is 1 or MaxNorm
MaxNorm == 2
\* nucleus A has at most MaxNucleonsA nucleons, nucleus B at most MaxNucleonsB
MaxNucleonsA == 2
MaxNucleonsB == 1
\* a nucleon's thickness amplitude is 1 or MaxW quanta
MaxW == 2
\* the deposition rule's nucleon radius, in length units
NucleonRadius == 2
\* the off-centre nucleon sits at x = -MaxPos
MaxPos == 3

\* one Event computes at most MaxEvents events
MaxEvents == 2

\* the tolerance 1e-12, in thickness quanta
TINY == 2
\* fixed-point resolution of the centroid: ixcm_ is held in 1/CMRES cells
CMRES == 2

NaN == [class |-> "nan"]
Inf == [class |-> "inf"]
Finite(v) == [class |-> "finite", v |-> v]
IsFinite(d) == d.class = "finite"

Indeterminate == "indeterminate"
NoNucleus == "none"

----------------------------------------------------------------------------
\* Arithmetic helpers.

Max(a, b) == IF a >= b THEN a ELSE b

RECURSIVE Pow(_, _)
Pow(a, n) == IF n = 0 THEN 1 ELSE a * Pow(a, n - 1)

\* static_cast<int>(a/b) for b > 0: the quotient truncated toward zero
TruncDiv(a, b) == IF a >= 0 THEN a \div b ELSE -((-a) \div b)

\* std::ceil(a/b) for b > 0
CeilDiv(a, b) == -((-a) \div b)

\* floor of the n-th root of the rational num/den (num >= 0, den > 0)
RootFloor(num, den, n, hi) ==
  CHOOSE m \in 0..hi : /\ den * Pow(m, n) <= num
                       /\ (m = hi \/ den * Pow(m + 1, n) > num)

\* std::sqrt in fixed point
Sqrt(a) == CHOOSE m \in 0..a : m * m <= a /\ (m + 1) * (m + 1) > a

\* a double quotient num/den of non-negative values held at resolution 1/res
FDiv(num, den, res) ==
  IF den = 0 THEN (IF num = 0 THEN NaN ELSE Inf)
  ELSE Finite((res * num) \div den)

RECURSIVE SumTo(_, _)
SumTo(f, n) == IF n = 0 THEN 0 ELSE f[n - 1] + SumTo(f, n - 1)

----------------------------------------------------------------------------
\* The generalized means (thickness quanta in, thickness quanta out).

positive_pmean(p, a, b) ==
  IF p > 0
  THEN RootFloor(Pow(a, p) + Pow(b, p), 2, p, Max(a, b))
  ELSE IF a = 0 \/ b = 0 THEN 0
  ELSE RootFloor(2 * Pow(a, -p) * Pow(b, -p), Pow(a, -p) + Pow(b, -p), -p,
                 Max(a, b))

\* negative_pmean without the guard on inputs below TINY
negative_pmean_Unguarded(p, a, b) == positive_pmean(p, a, b)

negative_pmean(p, a, b) ==
  IF a < TINY \/ b < TINY THEN 0 ELSE positive_pmean(p, a, b)

\* the arithmetic mean in the place of the geometric one
geometric_mean_Arithmetic(a, b) == (a + b) \div 2

geometric_mean(a, b) == Sqrt(a * b)

\* the closure the constructor stores in compute_reduced_thickness_
GenMeanFor(p) ==
  IF p = 0 THEN [kind |-> "geometric", p |-> 0]
  ELSE IF p > 0 THEN [kind |-> "positive", p |-> p]
  ELSE [kind |-> "negative", p |-> p]

gen_mean(gm, a, b) ==
  CASE gm.kind = "geometric" -> geometric_mean(a, b)
    [] gm.kind = "positive" -> positive_pmean(gm.p, a, b)
    [] gm.kind = "negative" -> negative_pmean(gm.p, a, b)

----------------------------------------------------------------------------
\* Grid construction.

\* the number of steps rounded down
NSteps_Floor(gridmax, dxy) == (2 * gridmax) \div dxy

NSteps(gridmax, dxy) == CeilDiv(2 * gridmax, dxy)

XYMax(nsteps, dxy) == (nsteps * dxy) \div 2

Idx(n) == 0..(n - 1)

ZeroGrid(n) == [iy \in Idx(n) |-> [ix \in Idx(n) |-> 0]]

----------------------------------------------------------------------------
\* The deposition rule (NucleonCommon) and the nucleons it is asked about.
\* A nucleon is [x, y, w, part]: position, thickness amplitude, participant
\* flag.  The profile is w within the nucleon radius and exactly zero beyond.

boundary(nc, nucleon) ==
  <<nucleon.x - nc.r, nucleon.x + nc.r, nucleon.y - nc.r, nucleon.y + nc.r>>

thickness(nc, nucleon, px, py) ==
  IF (px - nucleon.x) * (px - nucleon.x) + (py - nucleon.y) * (py - nucleon.y)
       <= nc.r * nc.r
  THEN nucleon.w ELSE 0

----------------------------------------------------------------------------
\* Event::compute_nuclear_thickness

\* clip that lets every value through
clip_Unlimited(value, min, max) == value

clip(value, min, max) ==
  IF value < min THEN min ELSE IF value > max THEN max ELSE value

\* min and max indices of the nucleon subgrid
SubgridIndex(coordinate, xymax, dxy, nsteps) ==
  clip(TruncDiv(coordinate + xymax, dxy), 0, nsteps - 1)

Subgrid(nc, nucleon, xymax, dxy, nsteps) ==
  LET b == boundary(nc, nucleon)
  IN [ixmin |-> SubgridIndex(b[1], xymax, dxy, nsteps),
      ixmax |-> SubgridIndex(b[2], xymax, dxy, nsteps),
      iymin |-> SubgridIndex(b[3], xymax, dxy, nsteps),
      iymax |-> SubgridIndex(b[4], xymax, dxy, nsteps)]

\* (i+.5)*dxy - xymax
CellCentre(i, xymax, dxy) == ((2 * i + 1) * dxy) \div 2 - xymax

\* the double loop with the upper index bounds exclusive
AddProfile_Exclusive(TX, nc, nucleon, xymax, dxy, nsteps) ==
  LET sg == Subgrid(nc, nucleon, xymax, dxy, nsteps)
  IN [iy \in DOMAIN TX |-> [ix \in DOMAIN TX[iy] |->
        IF /\ sg.iymin <= iy /\ iy < sg.iymax
           /\ sg.ixmin <= ix /\ ix < sg.ixmax
        THEN TX[iy][ix] + thickness(nc, nucleon, CellCentre(ix, xymax, dxy),
                                    CellCentre(iy, xymax, dxy))
        ELSE TX[iy][ix]]]

\* the double loop that adds one nucleon's profile to the grid
AddProfile(TX, nc, nucleon, xymax, dxy, nsteps) ==
  LET sg == Subgrid(nc, nucleon, xymax, dxy, nsteps)
  IN [iy \in DOMAIN TX |-> [ix \in DOMAIN TX[iy] |->
        IF /\ sg.iymin <= iy /\ iy <= sg.iymax
           /\ sg.ixmin <= ix /\ ix <= sg.ixmax
        THEN TX[iy][ix] + thickness(nc, nucleon, CellCentre(ix, xymax, dxy),
                                    CellCentre(iy, xymax, dxy))
        ELSE TX[iy][ix]]]

\* a deposit onto the grid as the previous event left it
WipeGrid_Skipped(TX) == TX

\* std::fill(TX.origin(), TX.origin() + TX.num_elements(), 0.)
WipeGrid(TX) == [iy \in DOMAIN TX |-> [ix \in DOMAIN TX[iy] |-> 0]]

\* the loop over the nucleons of the nucleus, from nucleon k on
RECURSIVE DepositFrom(_, _, _, _, _, _, _, _)
DepositFrom(nucleus, k, nc, TX, npart, xymax, dxy, nsteps) ==
  IF k > Len(nucleus) THEN [TX |-> TX, npart |-> npart]
  ELSE IF ~nucleus[k].part
  THEN DepositFrom(nucleus, k + 1, nc, TX, npart, xymax, dxy, nsteps)
  ELSE DepositFrom(nucleus, k + 1, nc,
                   AddProfile(TX, nc, nucleus[k], xymax, dxy, nsteps),
                   npart + 1, xymax, dxy, nsteps)

compute_nuclear_thickness(nucleus, nc, TX, npart, xymax, dxy, nsteps) ==
  DepositFrom(nucleus, 1, nc, WipeGrid(TX), npart, xymax, dxy, nsteps)

----------------------------------------------------------------------------
\* Event::compute_reduced_thickness

ReducedCell(gm, norm, TA, TB, iy, ix) == norm * gen_mean(gm, TA[iy][ix], TB[iy][ix])

\* sum over all cells of TR[iy][ix] * weight[iy][ix], cells taken row by row
GridSum(TR, weight, nsteps) ==
  SumTo([k \in Idx(nsteps * nsteps) |->
           TR[k \div nsteps][k % nsteps] * weight[k \div nsteps][k % nsteps]],
        nsteps * nsteps)

compute_reduced_thickness(gm, norm, TA, TB, dxy, nsteps) ==
  LET TR == [iy \in Idx(nsteps) |-> [ix \in Idx(nsteps) |->
               ReducedCell(gm, norm, TA, TB, iy, ix)]]
      one == [iy \in Idx(nsteps) |-> [ix \in Idx(nsteps) |-> 1]]
      wx == [iy \in Idx(nsteps) |-> [ix \in Idx(nsteps) |-> ix]]
      wy == [iy \in Idx(nsteps) |-> [ix \in Idx(nsteps) |-> iy]]
      sum == GridSum(TR, one, nsteps)
      ixcm == GridSum(TR, wx, nsteps)
      iycm == GridSum(TR, wy, nsteps)
  IN [TR |-> TR,
      multiplicity |-> dxy * dxy * sum,
      ixcm |-> FDiv(ixcm, sum, CMRES),
      iycm |-> FDiv(iycm, sum, CMRES)]

----------------------------------------------------------------------------
\* Event::compute_observables
\*
\* x and y are the offsets from the centroid in 1/CMRES cells, so an order-n
\* moment is in units of q/CMRES^n.

HarmonicRe(n, x, y) ==
  CASE n = 2 -> y * y - x * x
    [] n = 3 -> y * y * y - 3 * y * x * x
    [] n = 4 -> x * x * x * x + y * y * y * y - 6 * x * x * y * y
    [] n = 5 -> y * (5 * x * x * x * x - 10 * x * x * y * y + y * y * y * y)

HarmonicIm(n, x, y) ==
  CASE n = 2 -> 2 * x * y
    [] n = 3 -> 3 * x * y * y - x * x * x
    [] n = 4 -> 4 * x * y * (y * y - x * x)
    [] n = 5 -> x * (x * x * x * x - 10 * x * x * y * y + 5 * y * y * y * y)

HarmonicWt(n, x, y) ==
  LET r2 == x * x + y * y
      r == Sqrt(r2)
  IN CASE n = 2 -> r2
       [] n = 3 -> r2 * r
       [] n = 4 -> r2 * r2
       [] n = 5 -> r2 * r2 * r

\* the cells that pass the `t < TINY` skip, each with its value t and its
\* offsets x, y from the centroid
ActiveCells(TR, ixcm, iycm, nsteps) ==
  {[iy |-> c[1], ix |-> c[2], t |-> TR[c[1]][c[2]],
    x |-> CMRES * c[2] - ixcm.v, y |-> CMRES * c[1] - iycm.v] :
     c \in {d \in Idx(nsteps) \X Idx(nsteps) : ~(TR[d[1]][d[2]] < TINY)}}

\* sum of f[c] over the cells c of S
RECURSIVE SumFcn(_, _)
SumFcn(f, S) ==
  IF S = {} THEN 0
  ELSE LET c == CHOOSE d \in S : TRUE IN f[c] + SumFcn(f, S \ {c})

\* re, im, wt of the order-n accumulator after the loop over the grid
Accumulator(cells, n) ==
  [re |-> SumFcn([c \in cells |-> c.t * HarmonicRe(n, c.x, c.y)], cells),
   im |-> SumFcn([c \in cells |-> c.t * HarmonicIm(n, c.x, c.y)], cells),
   wt |-> SumFcn([c \in cells |-> c.t * HarmonicWt(n, c.x, c.y)], cells)]

\* whether the offsets from the centroid are numbers: they are unless a cell
\* is accumulated while the centroid is not finite
OffsetsFinite(cells, ixcm, iycm) ==
  cells = {} \/ (IsFinite(ixcm) /\ IsFinite(iycm))

\* TINY in the units of an order-n weight
TinyWt(n) == TINY * Pow(CMRES, n)

\* EccentricityAccumulator::finish: sqrt(re*re + im*im) / fmax(wt, TINY),
\* kept as the exact triple it is computed from
EccentricityFinish(acc, n) ==
  [class |-> "finite", re |-> acc.re, im |-> acc.im,
   den |-> Max(acc.wt, TinyWt(n))]

\* EccentricityAngleAccumulator::finish: wt*(atan2(im, re) + pi), where wt is
\* 1/n once any cell was accumulated and 0 otherwise
AngleFinish(acc, n, any) ==
  [class |-> "finite", wt |-> IF any THEN <<1, n>> ELSE <<0, 1>>,
   atan2 |-> <<acc.im, acc.re>>]

\* RadiusAccumulator::finish: fmax(wt, TINY)
RadiusFinish(acc, n) == Max(acc.wt, TinyWt(n))

\* dxy*dxy*R.finish()/total_ent, kept as the exact quotient
RadiusValue(acc, n, dxy, total_ent) ==
  IF total_ent = 0 THEN Inf
  ELSE [class |-> "finite", num |-> dxy * dxy * RadiusFinish(acc, n),
        den |-> total_ent]

\* pow(t, 4./3.) in fixed point
EntropyLocal(t) == RootFloor(Pow(t, 4), 1, 3, t * t)

EntropyTotal(cells) == SumFcn([c \in cells |-> EntropyLocal(c.t)], cells)

\* total_ent of the radius pass
TotalEnt(cells) == SumFcn([c \in cells |-> c.t], cells)

Orders == 2..5

\* the assignments to eccentricity_, in program order: the slot and the
\* accumulator (kind, order) whose result it receives
SlotTable ==
  << [slot |-> 2, of |-> <<"entropy", 0>>],
     [slot |-> 3, of |-> <<"magnitude", 2>>],
     [slot |-> 4, of |-> <<"magnitude", 3>>],
     [slot |-> 5, of |-> <<"magnitude", 4>>],
     [slot |-> 6, of |-> <<"angle", 2>>],
     [slot |-> 7, of |-> <<"angle", 3>>],
     [slot |-> 8, of |-> <<"angle", 4>>],
     [slot |-> 9, of |-> <<"radius", 2>>],
     [slot |-> 10, of |-> <<"radius", 3>>],
     [slot |-> 11, of |-> <<"radius", 4>>] >>

\* the right-hand side of the assignment for the observable `of`
ObservableValue(of, acc, any, total_ent, Si, dxy, defined) ==
  CASE of[1] = "entropy" -> Finite(dxy * dxy * Si)
    [] of[1] # "entropy" /\ ~defined -> NaN
    [] of[1] = "magnitude" /\ defined -> EccentricityFinish(acc[of[2]], of[2])
    [] of[1] = "angle" /\ defined -> AngleFinish(acc[of[2]], of[2], any)
    [] of[1] = "radius" /\ defined -> RadiusValue(acc[of[2]], of[2], dxy, total_ent)

ObservableWrites(TR, ixcm, iycm, dxy, nsteps) ==
  LET cells == ActiveCells(TR, ixcm, iycm, nsteps)
      acc == [n \in Orders |-> Accumulator(cells, n)]
      total_ent == TotalEnt(cells)
      Si == EntropyTotal(cells)
      defined == OffsetsFinite(cells, ixcm, iycm)
  IN [k \in DOMAIN SlotTable |->
        [slot |-> SlotTable[k].slot, of |-> SlotTable[k].of,
         val |-> ObservableValue(SlotTable[k].of, acc, cells # {}, total_ent,
                                 Si, dxy, defined)]]

\* the accumulators compute_observables declares and fills:
\* e2..e5, a2..a5, R2..R5 and Si
ComputedObservables ==
  {<<"entropy", 0>>} \cup ({"magnitude", "angle", "radius"} \X Orders)

RECURSIVE StoreFrom(_, _, _)
StoreFrom(ecc, writes, k) ==
  IF k > Len(writes) THEN ecc
  ELSE StoreFrom([s \in DOMAIN ecc \cup {writes[k].slot} |->
                    IF s = writes[k].slot
                    THEN [of |-> writes[k].of, val |-> writes[k].val]
                    ELSE ecc[s]],
                 writes, k + 1)

compute_observables(ecc, TR, ixcm, iycm, dxy, nsteps) ==
  StoreFrom(ecc, ObservableWrites(TR, ixcm, iycm, dxy, nsteps), 1)

----------------------------------------------------------------------------
\* Event::compute, as a function of the members before the call.

\* compute without the reset of npart_
ResetNpart_Missing(npart) == npart

\* npart_ = 0
ResetNpart(npart) == 0

ComputeResult(npart0, TA0, TB0, ecc0, gm, norm, xymax, dxy, nsteps, nc, A, B) ==
  LET reset == ResetNpart(npart0)
      a == compute_nuclear_thickness(A, nc, TA0, reset, xymax, dxy, nsteps)
      b == compute_nuclear_thickness(B, nc, TB0, a.npart, xymax, dxy, nsteps)
      r == compute_reduced_thickness(gm, norm, a.TX, b.TX, dxy, nsteps)
  IN [npart |-> b.npart, TA |-> a.TX, TB |-> b.TX, TR |-> r.TR,
      multiplicity |-> r.multiplicity, ixcm |-> r.ixcm, iycm |-> r.iycm,
      eccentricity |-> compute_observables(ecc0, r.TR, r.ixcm, r.iycm, dxy, nsteps)]

----------------------------------------------------------------------------
\* Inputs.

GridSteps == {2, 2 * MaxHalfStep}
GridMaxes == {MaxGridMax}
Exponents == {-MaxP, 0, MaxP}
Norms == {1, MaxNorm}

\* a nucleon near the middle of the grid and one at its left edge
Positions == {<<-1, -1>>, <<-MaxPos, 1>>}
Participants == {[x |-> pos[1], y |-> pos[2], w |-> w, part |-> TRUE] :
                   pos \in Positions, w \in {1, MaxW}}
Spectators == {[x |-> -1, y |-> -1, w |-> MaxW, part |-> FALSE]}
Nucleons == Participants \cup Spectators

\* nuclei are taken up to the order of their nucleons, on which no member
\* depends: each is listed in ascending order of (x, y, w, part)
NucleonLeq(a, b) ==
  \/ a.x < b.x
  \/ a.x = b.x /\ a.y < b.y
  \/ a.x = b.x /\ a.y = b.y /\ a.w < b.w
  \/ a.x = b.x /\ a.y = b.y /\ a.w = b.w /\ (a.part \/ ~b.part)

Nuclei(n) ==
  {s \in UNION {[1..k -> Nucleons] : k \in 0..n} :
     \A i \in 1..(Len(s) - 1) : NucleonLeq(s[i], s[i + 1])}

NucleiA == Nuclei(MaxNucleonsA)
NucleiB == Nuclei(MaxNucleonsB)

----------------------------------------------------------------------------
\* Event::Event.  The members the constructor does not initialize hold
\* whatever the storage held.

\* the members after the constructor's initializer list and body
Constructed(vm) ==
  LET dxy == vm.grid_step
      nsteps == NSteps(vm.grid_max, dxy)
  IN [norm |-> vm.normalization,
      dxy |-> dxy,
      nsteps |-> nsteps,
      xymax |-> XYMax(nsteps, dxy),
      TA |-> ZeroGrid(nsteps),
      TB |-> ZeroGrid(nsteps),
      TR |-> ZeroGrid(nsteps),
      compute_reduced_thickness |-> GenMeanFor(vm.reduced_thickness)]

VarMaps == [normalization : Norms, grid_step : GridSteps,
            grid_max : GridMaxes, reduced_thickness : Exponents]

Init ==
  /\ var_map \in VarMaps
  /\ nucleon_common = [r |-> NucleonRadius]
  /\ norm_ = Constructed(var_map).norm
  /\ dxy_ = Constructed(var_map).dxy
  /\ nsteps_ = Constructed(var_map).nsteps
  /\ xymax_ = Constructed(var_map).xymax
  /\ TA_ = Constructed(var_map).TA
  /\ TB_ = Constructed(var_map).TB
  /\ TR_ = Constructed(var_map).TR
  /\ compute_reduced_thickness_ = Constructed(var_map).compute_reduced_thickness
  /\ npart_ \in 0..1
  /\ multiplicity_ = Indeterminate
  /\ ixcm_ = Indeterminate
  /\ iycm_ = Indeterminate
  /\ eccentricity_ = << >>
  /\ nucleusA = NoNucleus
  /\ nucleusB = NoNucleus
  /\ nevents = 0

Compute(A, B) ==
  /\ nevents < MaxEvents
  /\ \E res \in {ComputeResult(npart_, TA_, TB_, eccentricity_,
                            compute_reduced_thickness_, norm_, xymax_, dxy_,
                            nsteps_, nucleon_common, A, B)} :
     /\ npart_' = res.npart
     /\ TA_' = res.TA
     /\ TB_' = res.TB
     /\ TR_' = res.TR
     /\ multiplicity_' = res.multiplicity
     /\ ixcm_' = res.ixcm
     /\ iycm_' = res.iycm
     /\ eccentricity_' = res.eccentricity
     /\ nucleusA' = A
     /\ nucleusB' = B
     /\ nevents' = nevents + 1
     /\ UNCHANGED <<norm_, dxy_, nsteps_, xymax_, compute_reduced_thickness_,
                    var_map, nucleon_common>>

Next == \E A \in NucleiA, B \in NucleiB : Compute(A, B)

Spec == Init /\ [][Next]_vars

----------------------------------------------------------------------------
\* Properties.

Computed == nevents > 0

NumParticipants(nucleus) ==
  Cardinality({k \in DOMAIN nucleus : nucleus[k].part})

ParticipantsOf(nucleus) == {nucleus[k] : k \in {j \in DOMAIN nucleus : nucleus[j].part}}

\* C1: after any sequence of compute calls, npart_ is the number of
\* participants of nucleus A plus that of nucleus B of the most recent call:
\* nothing is left over from earlier calls, every participant counts once and
\* no non-participant counts.
C1_NpartCountsParticipants ==
  Computed => npart_ = NumParticipants(nucleusA) + NumParticipants(nucleusB)

\* an Event used more than once whose last call had participants in both
\* nuclei and a non-participant
C1_Witness ==
  /\ nevents = MaxEvents
  /\ NumParticipants(nucleusA) > 0
  /\ NumParticipants(nucleusB) > 0
  /\ NumParticipants(nucleusA) < Len(nucleusA)
  /\ npart_ = NumParticipants(nucleusA) + NumParticipants(nucleusB)

\* the index the subgrid boundary gives before it is clipped
RawIndex(coordinate) == TruncDiv(coordinate + xymax_, dxy_)

\* the index pairs the deposit loop of a nucleon uses to access the grid
AccessedCells(nucleon) ==
  LET sg == Subgrid(nucleon_common, nucleon, xymax_, dxy_, nsteps_)
  IN {<<iy, ix>> : iy \in sg.iymin..sg.iymax, ix \in sg.ixmin..sg.ixmax}

\* C2: every index pair compute_nuclear_thickness uses to access the grid,
\* for every participant of either nucleus, is within 0..nsteps-1 on both
\* axes, wherever the support boundary lies.
C2_IndicesInRange ==
  Computed =>
    \A nucleon \in ParticipantsOf(nucleusA) \cup ParticipantsOf(nucleusB) :
      \A c \in AccessedCells(nucleon) :
        /\ 0 <= c[1] /\ c[1] <= nsteps_ - 1
        /\ 0 <= c[2] /\ c[2] <= nsteps_ - 1

\* a participant whose boundary reaches beyond the grid on the low side of
\* one axis and on the high side of the other was deposited
C2_Witness ==
  /\ Computed
  /\ \E nucleon \in ParticipantsOf(nucleusA) :
       LET b == boundary(nucleon_common, nucleon)
       IN /\ RawIndex(b[1]) < 0
          /\ RawIndex(b[4]) > nsteps_ - 1
          /\ AccessedCells(nucleon) # {}


\* the sum of the reduced-thickness field
SumTR == GridSum(TR_, [iy \in Idx(nsteps_) |-> [ix \in Idx(nsteps_) |-> 1]], nsteps_)

\* C3: when the sum of the reduced-thickness field is zero, the centroid is a
\* defined value (not a not-a-number) and the multiplicity is 0.
C3_ZeroSumCentroidDefined ==
  (Computed /\ SumTR = 0) =>
    /\ IsFinite(ixcm_)
    /\ IsFinite(iycm_)
    /\ multiplicity_ = 0

MagnitudeAndRadiusSlots ==
  {k \in DOMAIN eccentricity_ : eccentricity_[k].of[1] \in {"magnitude", "radius"}}

\* C4: every eccentricity magnitude and every radius compute_observables
\* reports is finite, whatever the reduced field, also when every cell is
\* below tolerance.
C4_MagnitudesAndRadiiFinite ==
  Computed => \A k \in MagnitudeAndRadiusSlots : IsFinite(eccentricity_[k].val)

\* the members compute writes, as one record
Members ==
  [npart |-> npart_, TA |-> TA_, TB |-> TB_, TR |-> TR_,
   multiplicity |-> multiplicity_, ixcm |-> ixcm_, iycm |-> iycm_,
   eccentricity |-> eccentricity_]

\* what a freshly constructed Event, whose npart_ holds np0, computes from
\* the nuclei A and B
FreshResult(np0, A, B) ==
  LET e == Constructed(var_map)
  IN ComputeResult(np0, e.TA, e.TB, << >>, e.compute_reduced_thickness, e.norm,
                   e.xymax, e.dxy, e.nsteps, nucleon_common, A, B)

\* C5: what compute leaves in npart_, TA_, TB_, TR_, the multiplicity, the
\* centroid and the observable slots is what a freshly constructed Event
\* computes from the same nuclei, whatever events this Event computed before.
C5_ReusedEventAsFresh ==
  Computed => \A np0 \in 0..1 : Members = FreshResult(np0, nucleusA, nucleusB)

\* a second event on the same Event, with deposits in both nuclei
C5_Witness ==
  /\ nevents = MaxEvents
  /\ NumParticipants(nucleusA) > 0
  /\ NumParticipants(nucleusB) > 0
  /\ \E iy \in Idx(nsteps_), ix \in Idx(nsteps_) : TR_[iy][ix] > 0

\* the sum over the participants of the nucleus of the thickness at the
\* centre of cell (iy, ix): the loop over every cell and every participant
RECURSIVE NaiveThickness(_, _, _, _)
NaiveThickness(nucleus, k, iy, ix) ==
  IF k > Len(nucleus) THEN 0
  ELSE (IF nucleus[k].part
        THEN thickness(nucleon_common, nucleus[k],
                       CellCentre(ix, xymax_, dxy_), CellCentre(iy, xymax_, dxy_))
        ELSE 0)
       + NaiveThickness(nucleus, k + 1, iy, ix)

\* C6: with a profile that is zero outside the boundary it reports, the
\* subgrid deposit leaves in every cell of TA_ (TB_) the sum over the
\* participants of nucleus A (B) of the thickness at the cell centre, as the
\* loop over all cells and all participants does.
C6_SubgridDepositIsNaive ==
  Computed =>
    \A iy \in Idx(nsteps_), ix \in Idx(nsteps_) :
      /\ TA_[iy][ix] = NaiveThickness(nucleusA, 1, iy, ix)
      /\ TB_[iy][ix] = NaiveThickness(nucleusB, 1, iy, ix)

\* nucleus A deposited two participants and a non-participant was skipped:
\* one cell holds the sum of both profiles, another holds one profile alone
C6_Witness ==
  /\ Computed
  /\ NumParticipants(nucleusA) = 2
  /\ \E iy \in Idx(nsteps_), ix \in Idx(nsteps_) :
       /\ TA_[iy][ix] = nucleusA[1].w + nucleusA[2].w
       /\ nucleusA[1].x # nucleusA[2].x
  /\ \E iy \in Idx(nsteps_), ix \in Idx(nsteps_) :
       TA_[iy][ix] = nucleusA[1].w /\ nucleusA[1].w # nucleusA[2].w
  /\ NumParticipants(nucleusB) < Len(nucleusB)

Cells == Idx(nsteps_) \X Idx(nsteps_)

\* in every grid cell at least one of TA_ and TB_ is zero
NoOverlap == \A c \in Cells : TA_[c[1]][c[2]] = 0 \/ TB_[c[1]][c[2]] = 0

\* m is the power mean (0.5*(a^p + b^p))^(1/p) of a and b, in whole quanta
IsPowerMean(p, a, b, m) ==
  IF p > 0
  THEN /\ 2 * Pow(m, p) <= Pow(a, p) + Pow(b, p)
       /\ Pow(a, p) + Pow(b, p) < 2 * Pow(m + 1, p)
  ELSE /\ Pow(m, -p) * (Pow(a, -p) + Pow(b, -p)) <= 2 * Pow(a, -p) * Pow(b, -p)
       /\ 2 * Pow(a, -p) * Pow(b, -p) < Pow(m + 1, -p) * (Pow(a, -p) + Pow(b, -p))

\* m is sqrt(a*b), in whole quanta
IsGeometricMean(a, b, m) == m * m <= a * b /\ a * b < (m + 1) * (m + 1)

\* the sum over the cells of S of the power mean of TA_ and TB_, p > 0
RECURSIVE PowerMeanSum(_, _)
PowerMeanSum(p, S) ==
  IF S = {} THEN 0
  ELSE LET c == CHOOSE d \in S : TRUE
           a == TA_[c[1]][c[2]]
           b == TB_[c[1]][c[2]]
       IN (CHOOSE m \in 0..(a + b) : IsPowerMean(p, a, b, m))
          + PowerMeanSum(p, S \ {c})

\* C7 as stated: for every exponent p, if in every grid cell at least one of
\* TA and TB is zero, the multiplicity is 0.
C7_NoOverlapNoMultiplicity ==
  (Computed /\ NoOverlap) => multiplicity_ = 0

\* C7: if in every grid cell at least one of TA and TB is zero, the
\* multiplicity is 0 when p <= 0, and when p > 0 it is dxy^2 * norm times the
\* sum over the cells of (0.5*(TA^p + TB^p))^(1/p).
C7_NoOverlapMultiplicity ==
  (Computed /\ NoOverlap) =>
    IF var_map.reduced_thickness <= 0
    THEN multiplicity_ = 0
    ELSE multiplicity_ =
           dxy_ * dxy_ * norm_ * PowerMeanSum(var_map.reduced_thickness, Cells)

\* both nuclei deposited, nowhere in the same cell, and with p > 0 the
\* multiplicity is positive
C7_Witness ==
  /\ Computed
  /\ NoOverlap
  /\ \E c \in Cells : TA_[c[1]][c[2]] > 0
  /\ \E c \in Cells : TB_[c[1]][c[2]] > 0
  /\ var_map.reduced_thickness > 0
  /\ multiplicity_ > 0

\* C8: after compute the observable vector holds the integrated entropy and,
\* for each order 2..5, a magnitude, an angle and a radius, each in a slot of
\* its own.
C8_EveryOrderInOwnSlot ==
  Computed =>
    /\ \A of \in ComputedObservables :
         \E k \in DOMAIN eccentricity_ : eccentricity_[k].of = of
    /\ \A i, j \in DOMAIN SlotTable :
         i # j => SlotTable[i].slot # SlotTable[j].slot

\* the rule chosen from the exponent p, and TR_ obtained with it in every
\* cell; idem says what the rule gives for two equal inputs below tolerance
\* when p < 0
MeanRuleHolds(idem) ==
  LET p == var_map.reduced_thickness
  IN /\ compute_reduced_thickness_.kind =
          (IF p = 0 THEN "geometric" ELSE IF p > 0 THEN "positive" ELSE "negative")
     /\ compute_reduced_thickness_.p = p
     /\ \A c \in Cells :
          LET a == TA_[c[1]][c[2]]
              b == TB_[c[1]][c[2]]
              t == TR_[c[1]][c[2]]
          IN \E m \in 0..(a + b) :
               /\ t = norm_ * m
               /\ IF p = 0 THEN IsGeometricMean(a, b, m)
                  ELSE IF p > 0 THEN IsPowerMean(p, a, b, m)
                  ELSE IF a = b /\ a < TINY THEN m = idem[a]
                  ELSE IF a < TINY \/ b < TINY THEN m = 0
                  ELSE IsPowerMean(p, a, b, m)

\* C9 as stated: the rule is chosen once from p and applied to every cell of
\* every event: sqrt(a*b) for p = 0, the power mean for p > 0, the power mean
\* or 0 below tolerance for p < 0; and mean(a, a) = a in every branch.
C9_MeanRuleIdempotent ==
  Computed => MeanRuleHolds([a \in 0..TINY |-> a])

\* C9: as stated, except that for p < 0 mean(a, a) is 0 when a is below
\* tolerance.
C9_MeanRule ==
  Computed => MeanRuleHolds([a \in 0..TINY |-> 0])

\* a second event with p < 0 in which a cell holds the same positive
\* thickness below tolerance from both nuclei, and another only that of A
C9_Witness ==
  /\ nevents = MaxEvents
  /\ var_map.reduced_thickness < 0
  /\ \E c \in Cells :
       /\ TA_[c[1]][c[2]] = TB_[c[1]][c[2]]
       /\ 0 < TA_[c[1]][c[2]] /\ TA_[c[1]][c[2]] < TINY
       /\ TR_[c[1]][c[2]] = 0
  /\ \E c \in Cells : TA_[c[1]][c[2]] > 0 /\ TB_[c[1]][c[2]] = 0

\* C10: for grid step s and configured maximum m, nsteps_ is ceil(2m/s) and
\* xymax_ is nsteps_*s/2, at least m and at most m + s, in every state, so
\* also after every compute.
C10_GridParameters ==
  LET s == var_map.grid_step
      m == var_map.grid_max
  IN /\ dxy_ = s
     /\ nsteps_ * s >= 2 * m
     /\ (nsteps_ - 1) * s < 2 * m
     /\ 2 * xymax_ = nsteps_ * s
     /\ xymax_ >= m
     /\ xymax_ - m <= s

\* two events computed on a grid whose step does not divide 2m
C10_Witness ==
  /\ nevents = MaxEvents
  /\ (2 * var_map.grid_max) % var_map.grid_step # 0
  /\ xymax_ > var_map.grid_max
  /\ NumParticipants(nucleusA) > 0

\* <<real part, imaginary part>> of (x + i*y)^n, which are r^n*cos(n*phi) and
\* r^n*sin(n*phi) for phi = atan2(y, x) and r^2 = x^2 + y^2
RECURSIVE ComplexPow(_, _, _)
ComplexPow(x, y, n) ==
  IF n = 0 THEN <<1, 0>>
  ELSE LET z == ComplexPow(x, y, n - 1)
       IN <<z[1] * x - z[2] * y, z[1] * y + z[2] * x>>

\* C11: for each order n in 2..5 and every accumulated cell, with value t and
\* offsets (x, y) from the centroid, the polynomial compute_observables adds
\* to re_n is t times the real part of (x + i*y)^n and the one it adds to im_n
\* is t times the imaginary part.
C11_PolynomialsAreComplexPowers ==
  (Computed /\ IsFinite(ixcm_) /\ IsFinite(iycm_)) =>
    \A c \in ActiveCells(TR_, ixcm_, iycm_, nsteps_), n \in Orders :
      /\ c.t * HarmonicRe(n, c.x, c.y) = c.t * ComplexPow(c.x, c.y, n)[1]
      /\ c.t * HarmonicIm(n, c.x, c.y) = c.t * ComplexPow(c.x, c.y, n)[2]

====
